---- MODULE Spec2Model ----
(***************************************************************************)
(* Model of plugins/modules/identity/keycloak/keycloak_realm.py: the       *)
(* reconciliation of one Keycloak realm (fetch, merge, create / update /   *)
(* delete, re-fetch, sanitize) against a remote realm store.               *)
(***************************************************************************)
EXTENDS Integers, Sequences, FiniteSets, TLC

\* ------------------------------------------------------------------ bounds
MaxRuns == 2
MaxExternal == 1

\* ------------------------------------------------------------ value domain
\* Python None and a present value; a representation is a function from
\* attribute names to values, {} is the empty function.
None == [null |-> TRUE]
Some(v) == [v |-> v]
EmptyRep == <<>>

Keys == {"r1", "r2"}
REDACTED == "********"
PrivKey == "saml.signing.private.key"

\* '%s' formatting of a value that may be None
KeyOf(opt) == IF opt = None THEN "None" ELSE opt.v

\* --------------------------------------------------------------- sanitizer
sanitize_cr_keeps_secret(realmrep) ==
    [k \in DOMAIN realmrep |->
        IF k = "attributes" /\ PrivKey \in DOMAIN realmrep[k]
        THEN [a \in DOMAIN realmrep[k] |->
                 IF a = PrivKey THEN REDACTED ELSE realmrep[k][a]]
        ELSE realmrep[k]]

sanitize_cr(realmrep) ==
    [k \in DOMAIN realmrep |->
        IF k = "secret" THEN REDACTED
        ELSE IF k = "attributes" /\ PrivKey \in DOMAIN realmrep[k]
        THEN [a \in DOMAIN realmrep[k] |->
                 IF a = PrivKey THEN REDACTED ELSE realmrep[k][a]]
        ELSE realmrep[k]]

\* -------------------------------------------------------- attribute mapper
ParamNames == {"token", "auth_realm", "state", "id", "realm", "display_name", "attributes"}

\* keys of keycloak_argument_spec() that the model carries
KeycloakArgumentSpecKeys == {"token", "auth_realm"}

\* words.split('_')
SplitWords(name) ==
    CASE name = "auth_realm" -> <<"auth", "realm">>
      [] name = "display_name" -> <<"display", "name">>
      [] OTHER -> <<name>>

\* str.capitalize() on the words that occur
Capitalize(w) ==
    CASE w = "realm" -> "Realm"
      [] w = "name" -> "Name"
      [] OTHER -> w

RECURSIVE JoinCapitalized(_)
JoinCapitalized(ws) ==
    IF ws = <<>> THEN "" ELSE Capitalize(Head(ws)) \o JoinCapitalized(Tail(ws))

\* camel(words): first word, then the capitalized remaining words
camel(name) == Head(SplitWords(name)) \o JoinCapitalized(Tail(SplitWords(name)))

params_to_ignore_without_state == KeycloakArgumentSpecKeys

params_to_ignore == KeycloakArgumentSpecKeys \cup {"state"}

realm_params(p) ==
    {x \in DOMAIN p : x \notin params_to_ignore /\ p[x] # None}

changeset(p) ==
    [k \in {camel(x) : x \in realm_params(p)} |->
        p[CHOOSE x \in realm_params(p) : camel(x) = k].v]

\* ------------------------------------------------------------------- merge
desired_realm_existing_wins(before_realm, cs) ==
    [k \in DOMAIN before_realm \cup DOMAIN cs |->
        IF k \in DOMAIN before_realm THEN before_realm[k] ELSE cs[k]]

\* desired_realm = before_realm.copy(); desired_realm.update(changeset)
desired_realm(before_realm, cs) ==
    [k \in DOMAIN before_realm \cup DOMAIN cs |->
        IF k \in DOMAIN cs THEN cs[k] ELSE before_realm[k]]

\* ------------------------------------------------------------ remote store
\* The realm store behind KeycloakAPI: a partial function from realm key to
\* the stored representation.
get_realm_by_id(rem, key) ==
    IF key \in DOMAIN rem THEN Some(rem[key]) ELSE None

CreateConflict(rem, rep) == "id" \in DOMAIN rep /\ rep["id"] \in DOMAIN rem

create_realm(rem, rep) ==
    IF "id" \notin DOMAIN rep \/ CreateConflict(rem, rep) THEN rem
    ELSE [k \in DOMAIN rem \cup {rep["id"]} |->
             IF k = rep["id"] THEN rep ELSE rem[k]]

\* echo = FALSE: the remote system silently normalises the update to a no-op
update_realm(rem, rep, key, echo) ==
    IF echo /\ key \in DOMAIN rem THEN [rem EXCEPT ![key] = rep] ELSE rem

delete_realm(rem, key) ==
    [k \in DOMAIN rem \ {key} |-> rem[k]]

\* ------------------------------------------------------------ result shape
NoDiff == [set |-> FALSE]
DiffOf(b, a) == [set |-> TRUE, before |-> b, after |-> a]
Text(s) == [str |-> s]
RepVal(r) == [rep |-> r]

\* result = dict(changed=False, msg='', diff={}, proposed={}, existing={}, end_state={})
InitialResult ==
    [changed |-> FALSE, msg |-> "", diff |-> NoDiff,
     proposed |-> EmptyRep, existing |-> EmptyRep, end_state |-> EmptyRep]

Call(op, key) == [op |-> op, key |-> key]
MutatingOps == {"create_realm", "update_realm", "delete_realm"}

\* One segment of main(): what it leaves behind when it either terminates
\* (pc = "idle") or has just issued a mutating call that is followed by a
\* re-fetch (pc = "created" / "updated").
Step(pc_, outcome_, result_, failmsg_, calls_, sent_, rem_) ==
    [pc |-> pc_, outcome |-> outcome_, result |-> result_, failmsg |-> failmsg_,
     calls |-> calls_, sent |-> sent_, rem |-> rem_]

\* -------------------------------------------------------------- reconciler
SelectAction_swapped(before_realm, state) ==
    IF DOMAIN before_realm = {}
    THEN IF state = "absent" THEN "create" ELSE "noop"
    ELSE IF state = "present" THEN "delete" ELSE "update"

\* `if not before_realm` / `if state == 'absent'` / `if state == 'present'`
SelectAction(before_realm, state) ==
    IF DOMAIN before_realm = {}
    THEN IF state = "absent" THEN "noop" ELSE "create"
    ELSE IF state = "present" THEN "update" ELSE "delete"

NoopPath_changed(c) ==
    Step("idle", "exit",
         [c.result EXCEPT
            !.diff = IF c.diff THEN DiffOf(Text(""), Text("")) ELSE @,
            !.changed = TRUE,
            !.end_state = EmptyRep,
            !.msg = "Realm does not exist, doing nothing."],
         "", c.calls, None, c.rem)

NoopPath_clears_proposed(c) ==
    Step("idle", "exit",
         [c.result EXCEPT
            !.diff = IF c.diff THEN DiffOf(Text(""), Text("")) ELSE @,
            !.changed = FALSE,
            !.proposed = EmptyRep,
            !.end_state = EmptyRep,
            !.msg = "Realm does not exist, doing nothing."],
         "", c.calls, None, c.rem)

NoopPath_always_diff(c) ==
    Step("idle", "exit",
         [c.result EXCEPT
            !.diff = DiffOf(Text(""), Text("")),
            !.changed = FALSE,
            !.end_state = EmptyRep,
            !.msg = "Realm does not exist, doing nothing."],
         "", c.calls, None, c.rem)

NoopPath(c) ==
    Step("idle", "exit",
         [c.result EXCEPT
            !.diff = IF c.diff THEN DiffOf(Text(""), Text("")) ELSE @,
            !.changed = FALSE,
            !.end_state = EmptyRep,
            !.msg = "Realm does not exist, doing nothing."],
         "", c.calls, None, c.rem)

CreatePrecondition_none(desired) == TRUE

\* `if 'id' not in desired_realm: module.fail_json(...)`
CreatePrecondition(desired) == "id" \in DOMAIN desired

CreatePath_ignores_check_mode(c) ==
    LET r1 == [c.result EXCEPT !.changed = TRUE]
        r2 == [r1 EXCEPT !.diff =
                 IF c.diff THEN DiffOf(Text(""), RepVal(sanitize_cr(c.desired_realm)))
                 ELSE @]
        issued == Append(c.calls,
                         Call("create_realm",
                              IF "id" \in DOMAIN c.desired_realm
                              THEN c.desired_realm["id"] ELSE ""))
    IN  IF ~CreatePrecondition(c.desired_realm)
        THEN Step("idle", "fail", r1,
                  "id needs to be specified when creating a new realm",
                  c.calls, None, c.rem)
        ELSE IF CreateConflict(c.rem, c.desired_realm)
        THEN Step("idle", "fail", r2, "Could not create realm",
                  issued, Some(c.desired_realm), c.rem)
        ELSE Step("created", "running", r2, "",
                  issued, Some(c.desired_realm),
                  create_realm(c.rem, c.desired_realm))

CreatePath(c) ==
    LET r1 == [c.result EXCEPT !.changed = TRUE]
        r2 == [r1 EXCEPT !.diff =
                 IF c.diff THEN DiffOf(Text(""), RepVal(sanitize_cr(c.desired_realm)))
                 ELSE @]
        issued == Append(c.calls,
                         Call("create_realm",
                              IF "id" \in DOMAIN c.desired_realm
                              THEN c.desired_realm["id"] ELSE ""))
    IN  IF ~CreatePrecondition(c.desired_realm)
        THEN Step("idle", "fail", r1,
                  "id needs to be specified when creating a new realm",
                  c.calls, None, c.rem)
        ELSE IF c.check_mode
        THEN Step("idle", "exit", r2, "", c.calls, None, c.rem)
        ELSE IF CreateConflict(c.rem, c.desired_realm)
        THEN Step("idle", "fail", r2, "Could not create realm",
                  issued, Some(c.desired_realm), c.rem)
        ELSE Step("created", "running", r2, "",
                  issued, Some(c.desired_realm),
                  create_realm(c.rem, c.desired_realm))

check_changed_always(before_realm, desired) == TRUE

\* result['changed'] = (before_realm != desired_realm)
check_changed_sanitized(before_realm, desired) ==
    sanitize_cr(before_realm) # sanitize_cr(desired)

check_changed(before_realm, desired) == before_realm # desired

UpdatePath_skips_equal_update(c) ==
    LET r1 == [c.result EXCEPT !.changed = TRUE]
    IN  IF c.check_mode
        THEN Step("idle", "exit",
                  [r1 EXCEPT
                     !.diff = IF c.diff
                              THEN DiffOf(RepVal(c.before_realm_sanitized),
                                          RepVal(sanitize_cr(c.desired_realm)))
                              ELSE @,
                     !.changed = check_changed(c.before_realm, c.desired_realm)],
                  "", c.calls, None, c.rem)
        ELSE IF c.before_realm = c.desired_realm
        THEN Step("updated", "running", r1, "", c.calls, None, c.rem)
        ELSE Step("updated", "running", r1, "",
                  Append(c.calls, Call("update_realm", KeyOf(c.realm))),
                  Some(c.desired_realm),
                  update_realm(c.rem, c.desired_realm, KeyOf(c.realm), c.echo))

UpdatePath_predicts_end_state(c) ==
    LET r1 == [c.result EXCEPT !.changed = TRUE]
    IN  IF c.check_mode
        THEN Step("idle", "exit",
                  [r1 EXCEPT
                     !.diff = IF c.diff
                              THEN DiffOf(RepVal(c.before_realm_sanitized),
                                          RepVal(sanitize_cr(c.desired_realm)))
                              ELSE @,
                     !.changed = check_changed(c.before_realm, c.desired_realm),
                     !.end_state = sanitize_cr(c.desired_realm)],
                  "", c.calls, None, c.rem)
        ELSE Step("updated", "running", r1, "",
                  Append(c.calls, Call("update_realm", KeyOf(c.realm))),
                  Some(c.desired_realm),
                  update_realm(c.rem, c.desired_realm, KeyOf(c.realm), c.echo))

UpdatePath(c) ==
    LET r1 == [c.result EXCEPT !.changed = TRUE]
    IN  IF c.check_mode
        THEN Step("idle", "exit",
                  [r1 EXCEPT
                     !.diff = IF c.diff
                              THEN DiffOf(RepVal(c.before_realm_sanitized),
                                          RepVal(sanitize_cr(c.desired_realm)))
                              ELSE @,
                     !.changed = check_changed(c.before_realm, c.desired_realm)],
                  "", c.calls, None, c.rem)
        ELSE Step("updated", "running", r1, "",
                  Append(c.calls, Call("update_realm", KeyOf(c.realm))),
                  Some(c.desired_realm),
                  update_realm(c.rem, c.desired_realm, KeyOf(c.realm), c.echo))

DeletePath_ignores_check_mode(c) ==
    LET r1 == [c.result EXCEPT !.changed = TRUE]
        r2 == [r1 EXCEPT !.diff =
                 IF c.diff THEN DiffOf(RepVal(c.before_realm_sanitized), Text(""))
                 ELSE @]
        issued == Append(c.calls, Call("delete_realm", KeyOf(c.realm)))
        r3 == [r2 EXCEPT !.proposed = EmptyRep, !.end_state = EmptyRep]
    IN  IF "id" \notin DOMAIN c.before_realm
        THEN Step("idle", "exception", r3, "KeyError: 'id'",
                  issued, None, delete_realm(c.rem, KeyOf(c.realm)))
        ELSE Step("idle", "exit",
                  [r3 EXCEPT !.msg = "Realm " \o c.before_realm["id"]
                                         \o " has been deleted."],
                  "", issued, None, delete_realm(c.rem, KeyOf(c.realm)))

DeletePath(c) ==
    LET r1 == [c.result EXCEPT !.changed = TRUE]
        r2 == [r1 EXCEPT !.diff =
                 IF c.diff THEN DiffOf(RepVal(c.before_realm_sanitized), Text(""))
                 ELSE @]
        issued == Append(c.calls, Call("delete_realm", KeyOf(c.realm)))
        r3 == [r2 EXCEPT !.proposed = EmptyRep, !.end_state = EmptyRep]
    IN  IF c.check_mode
        THEN Step("idle", "exit", r2, "", c.calls, None, c.rem)
        ELSE IF "id" \notin DOMAIN c.before_realm
        THEN Step("idle", "exception", r3, "KeyError: 'id'",
                  issued, None, delete_realm(c.rem, KeyOf(c.realm)))
        ELSE Step("idle", "exit",
                  [r3 EXCEPT !.msg = "Realm " \o c.before_realm["id"]
                                         \o " has been deleted."],
                  "", issued, None, delete_realm(c.rem, KeyOf(c.realm)))

Locals_lookup_by_id(rem, p) ==
    LET fetched == get_realm_by_id(rem, IF p["id"] # None THEN p["id"].v
                                        ELSE KeyOf(p["realm"]))
        before == IF fetched = None THEN EmptyRep ELSE fetched.v
        cs == changeset(p)
    IN  [connection_header |-> Some("Bearer"),
         before_realm |-> before, changeset |-> cs,
         desired_realm |-> desired_realm(before, cs),
         after_realm |-> None]

\* The locals main() computes between the token and the branch.
Locals(rem, p) ==
    LET fetched == get_realm_by_id(rem, KeyOf(p["realm"]))
        before == IF fetched = None THEN EmptyRep ELSE fetched.v
        cs == changeset(p)
    IN  [connection_header |-> Some("Bearer"),
         before_realm |-> before, changeset |-> cs,
         desired_realm |-> desired_realm(before, cs),
         after_realm |-> None]

main_ignores_token_failure(rem, p, cm, df, tokenOk, echo) ==
    LET l == Locals(rem, p)
        c == [rem |-> rem, realm |-> p["realm"], check_mode |-> cm, diff |-> df,
              echo |-> echo,
              before_realm |-> l.before_realm,
              desired_realm |-> l.desired_realm,
              before_realm_sanitized |-> sanitize_cr(l.before_realm),
              calls |-> <<Call("get_realm_by_id", KeyOf(p["realm"]))>>,
              result |-> [InitialResult EXCEPT
                            !.proposed = sanitize_cr(l.changeset),
                            !.existing = sanitize_cr(l.before_realm)]]
        action == SelectAction(l.before_realm, p["state"].v)
    IN  CASE action = "noop" -> NoopPath(c)
          [] action = "create" -> CreatePath(c)
          [] action = "update" -> UpdatePath(c)
          [] action = "delete" -> DeletePath(c)

\* main() from its start to its end or to its first mutating call
main(rem, p, cm, df, tokenOk, echo) ==
    LET l == Locals(rem, p)
        c == [rem |-> rem, realm |-> p["realm"], check_mode |-> cm, diff |-> df,
              echo |-> echo,
              before_realm |-> l.before_realm,
              desired_realm |-> l.desired_realm,
              before_realm_sanitized |-> sanitize_cr(l.before_realm),
              calls |-> <<Call("get_realm_by_id", KeyOf(p["realm"]))>>,
              result |-> [InitialResult EXCEPT
                            !.proposed = sanitize_cr(l.changeset),
                            !.existing = sanitize_cr(l.before_realm)]]
        action == SelectAction(l.before_realm, p["state"].v)
    IN  IF ~tokenOk
        THEN Step("idle", "fail", InitialResult, "KeycloakError", <<>>, None, rem)
        ELSE CASE action = "noop" -> NoopPath(c)
               [] action = "create" -> CreatePath(c)
               [] action = "update" -> UpdatePath(c)
               [] action = "delete" -> DeletePath(c)

\* ----------------------------------------------------------- state machine
VARIABLES
    remote,       \* the realm store of the Keycloak server
    params,       \* module.params of the task
    diffmode,     \* module._diff
    check_mode,   \* module.check_mode of the current / last invocation
    pc,           \* "idle", or where a running invocation stands
    outcome,      \* "none", "running", "exit", "fail", "exception"
    result,       \* the result dict of the current / last invocation
    failmsg,      \* msg of fail_json or the unhandled exception
    loc,          \* before_realm, changeset, desired_realm, after_realm
    calls,        \* KeycloakAPI calls of the current / last invocation
    sent,         \* payload of the create / update call, if any
    startRemote,  \* the realm store when the invocation started
    echoed,       \* the remote persisted the invocation's update faithfully
    disturbed,    \* somebody else changed the store during the invocation
    prev,         \* summary of the invocation before the current one
    runs,         \* invocations started
    externals,    \* external changes made
    hin,          \* object heap when sanitize_cr is called
    hheap,        \* object heap after sanitize_cr returned
    hret,         \* address of the dict sanitize_cr returned
    hpc           \* "off", "call" or "returned"

vars == <<remote, params, diffmode, check_mode, pc, outcome, result, failmsg,
          loc, calls, sent, startRemote, echoed, disturbed, prev, runs,
          externals, hin, hheap, hret, hpc>>

mainvars == <<remote, params, diffmode, check_mode, pc, outcome, result,
              failmsg, loc, calls, sent, startRemote, echoed, disturbed, prev,
              runs, externals>>

hvars == <<hin, hheap, hret, hpc>>

OptKeys == {None} \cup {Some(k) : k \in Keys}

\* representations a realm can have on the server before the first invocation
InitReps(k) ==
    { [id |-> k, realm |-> k],
      [id |-> k, realm |-> k, displayName |-> "a"],
      [id |-> k, realm |-> k, displayName |-> "b", secret |-> "s1"],
      [id |-> k, realm |-> k, attributes |-> (PrivKey :> "k0")] }

InitRemotes ==
    {<<>>} \cup {("r1" :> r) : r \in InitReps("r1")}
           \cup {("r2" :> [id |-> "r2", realm |-> "r2"])}
           \cup {("r1" :> r) @@ ("r2" :> [id |-> "r2", realm |-> "r2"]) :
                    r \in InitReps("r1")}

NoPrev == [outcome |-> "none", check_mode |-> FALSE, changed |-> FALSE,
           clean |-> TRUE, call |-> "none"]

NoLocals == [connection_header |-> None,
             before_realm |-> EmptyRep, changeset |-> EmptyRep,
             desired_realm |-> EmptyRep, after_realm |-> None]

Init ==
    /\ remote \in InitRemotes
    /\ \E i \in OptKeys, r \in OptKeys,
          d \in {None, Some("a")},
          a \in {None, Some(PrivKey :> "k1")},
          st \in {"present", "absent"} :
          \* required_one_of id / realm / enabled
          /\ i # None \/ r # None
          /\ params = [token |-> Some("t"), auth_realm |-> None,
                       state |-> Some(st), id |-> i, realm |-> r,
                       display_name |-> d, attributes |-> a]
    /\ diffmode \in BOOLEAN
    /\ check_mode = FALSE
    /\ pc = "idle"
    /\ outcome = "none"
    /\ result = InitialResult
    /\ failmsg = ""
    /\ loc = NoLocals
    /\ calls = <<>>
    /\ sent = None
    /\ startRemote = remote
    /\ echoed = TRUE
    /\ disturbed = FALSE
    /\ prev = NoPrev
    /\ runs = 0
    /\ externals = 0
    /\ hin = <<>>
    /\ hheap = <<>>
    /\ hret = 0
    /\ hpc = "off"

Summary ==
    [outcome |-> outcome, check_mode |-> check_mode,
     changed |-> result.changed, clean |-> echoed /\ ~disturbed,
     call |-> IF \E i \in 1..Len(calls) : calls[i].op \in MutatingOps
              THEN (CHOOSE c \in {calls[i] : i \in 1..Len(calls)} :
                        c.op \in MutatingOps).op
              ELSE "none"]

\* One invocation of the module, up to its end or its first mutating call.
Invoke(cm, tokenOk, echo) ==
    /\ pc = "idle"
    /\ runs < MaxRuns
    /\ LET s == main(remote, params, cm, diffmode, tokenOk, echo)
       IN  /\ echo \/ s.pc = "updated"
           /\ pc' = s.pc
           /\ outcome' = s.outcome
           /\ result' = s.result
           /\ failmsg' = s.failmsg
           /\ calls' = s.calls
           /\ sent' = s.sent
           /\ remote' = s.rem
           /\ loc' = IF tokenOk THEN Locals(remote, params) ELSE NoLocals
    /\ check_mode' = cm
    /\ startRemote' = remote
    /\ echoed' = echo
    /\ disturbed' = FALSE
    /\ prev' = IF outcome = "none" THEN prev ELSE Summary
    /\ runs' = runs + 1
    /\ UNCHANGED <<params, diffmode, externals>>
    /\ UNCHANGED hvars

update_changed_never_downgraded(before_realm, after_realm) == TRUE

\* `if before_realm == after_realm: result['changed'] = False`
update_changed(before_realm, after_realm) ==
    ~(after_realm # None /\ before_realm = after_realm.v)

\* after_realm = kc.get_realm_by_id(desired_realm['id']) ... exit_json
CreateRefetch ==
    /\ pc = "created"
    /\ IF "id" \notin DOMAIN loc.desired_realm
       THEN /\ outcome' = "exception"
            /\ failmsg' = "KeyError: 'id'"
            /\ UNCHANGED <<result, calls, loc>>
       ELSE LET after == get_realm_by_id(remote, loc.desired_realm["id"])
            IN  /\ calls' = Append(calls, Call("get_realm_by_id",
                                               loc.desired_realm["id"]))
                /\ loc' = [loc EXCEPT !.after_realm = after]
                /\ IF after = None
                   THEN /\ outcome' = "exception"
                        /\ failmsg' = "AttributeError: 'NoneType' object has no attribute 'copy'"
                        /\ UNCHANGED result
                   ELSE /\ outcome' = "exit"
                        /\ failmsg' = ""
                        /\ result' = [result EXCEPT
                              !.end_state = sanitize_cr(after.v),
                              !.msg = "Realm " \o loc.desired_realm["id"]
                                               \o " has been created."]
    /\ pc' = "idle"
    /\ UNCHANGED <<remote, params, diffmode, check_mode, sent, startRemote,
                   echoed, disturbed, prev, runs, externals>>
    /\ UNCHANGED hvars

UpdateRefetch_without_fetch ==
    /\ pc = "updated"
    /\ LET after == Some(loc.desired_realm)
           r1 == [result EXCEPT
                    !.changed = IF update_changed(loc.before_realm, after)
                                THEN @ ELSE FALSE]
       IN  /\ calls' = calls
           /\ loc' = [loc EXCEPT !.after_realm = after]
           /\ IF after = None
              THEN /\ outcome' = "exception"
                   /\ failmsg' = "AttributeError: 'NoneType' object has no attribute 'copy'"
                   /\ result' = r1
              ELSE LET r2 == [r1 EXCEPT
                                !.end_state = sanitize_cr(after.v),
                                !.diff = IF diffmode
                                         THEN DiffOf(RepVal(sanitize_cr(loc.before_realm)),
                                                     RepVal(sanitize_cr(after.v)))
                                         ELSE @]
                   IN  IF "id" \notin DOMAIN loc.desired_realm
                       THEN /\ outcome' = "exception"
                            /\ failmsg' = "KeyError: 'id'"
                            /\ result' = r2
                       ELSE /\ outcome' = "exit"
                            /\ failmsg' = ""
                            /\ result' = [r2 EXCEPT !.msg =
                                  "Realm " \o loc.desired_realm["id"]
                                           \o " has been updated."]
    /\ pc' = "idle"
    /\ UNCHANGED <<remote, params, diffmode, check_mode, sent, startRemote,
                   echoed, disturbed, prev, runs, externals>>
    /\ UNCHANGED hvars

\* after_realm = kc.get_realm_by_id(realm=realm) ... exit_json
UpdateRefetch ==
    /\ pc = "updated"
    /\ LET after == get_realm_by_id(remote, KeyOf(params["realm"]))
           r1 == [result EXCEPT
                    !.changed = IF update_changed(loc.before_realm, after)
                                THEN @ ELSE FALSE]
       IN  /\ calls' = Append(calls, Call("get_realm_by_id",
                                          KeyOf(params["realm"])))
           /\ loc' = [loc EXCEPT !.after_realm = after]
           /\ IF after = None
              THEN /\ outcome' = "exception"
                   /\ failmsg' = "AttributeError: 'NoneType' object has no attribute 'copy'"
                   /\ result' = r1
              ELSE LET r2 == [r1 EXCEPT
                                !.end_state = sanitize_cr(after.v),
                                !.diff = IF diffmode
                                         THEN DiffOf(RepVal(sanitize_cr(loc.before_realm)),
                                                     RepVal(sanitize_cr(after.v)))
                                         ELSE @]
                   IN  IF "id" \notin DOMAIN loc.desired_realm
                       THEN /\ outcome' = "exception"
                            /\ failmsg' = "KeyError: 'id'"
                            /\ result' = r2
                       ELSE /\ outcome' = "exit"
                            /\ failmsg' = ""
                            /\ result' = [r2 EXCEPT !.msg =
                                  "Realm " \o loc.desired_realm["id"]
                                           \o " has been updated."]
    /\ pc' = "idle"
    /\ UNCHANGED <<remote, params, diffmode, check_mode, sent, startRemote,
                   echoed, disturbed, prev, runs, externals>>
    /\ UNCHANGED hvars

\* Another client of the server deletes a realm between the module's
\* mutating call and its re-fetch.
ExternalDelete(k) ==
    /\ pc \in {"created", "updated"}
    /\ externals < MaxExternal
    /\ k \in DOMAIN remote
    /\ remote' = delete_realm(remote, k)
    /\ disturbed' = TRUE
    /\ externals' = externals + 1
    /\ UNCHANGED <<params, diffmode, check_mode, pc, outcome, result, failmsg,
                   loc, calls, sent, startRemote, echoed, prev, runs>>
    /\ UNCHANGED hvars

Next ==
    \/ \E cm \in BOOLEAN, tokenOk \in BOOLEAN, echo \in BOOLEAN :
          Invoke(cm, tokenOk, echo)
    \/ CreateRefetch
    \/ UpdateRefetch
    \/ \E k \in Keys : ExternalDelete(k)

Spec == Init /\ [][Next]_vars

\* main() is sequential and synchronous: once a mutating call has returned,
\* the re-fetch and the rest of main() follow.
FairSpec ==
    Init /\ [][Next]_vars /\ WF_vars(CreateRefetch) /\ WF_vars(UpdateRefetch)

\* ------------------------------------------------- vocabulary of the claims
IsMutating(c) == c.op \in MutatingOps
MutatingCalls == SelectSeq(calls, IsMutating)
RealmKey == KeyOf(params["realm"])
ExistedAtStart == RealmKey \in DOMAIN startRemote
ExistingAtStart == IF ExistedAtStart THEN startRemote[RealmKey] ELSE EmptyRep
Requested == params["state"].v
TokenFailed == outcome = "fail" /\ failmsg = "KeycloakError"
Started == outcome # "none" /\ ~TokenFailed
Ended == pc = "idle" /\ outcome # "none"

\* C1: a dry-run (check mode) invocation issues no create_realm, update_realm
\* or delete_realm call and leaves the realm store as it found it.
C1_DryRunNeverMutates ==
    (outcome # "none" /\ check_mode) =>
        /\ MutatingCalls = <<>>
        /\ remote = startRemote
        /\ pc = "idle"

C1_Witness ==
    /\ check_mode /\ outcome = "exit" /\ result.changed
    /\ ~ExistedAtStart /\ Requested = "present"

\* C2: a dry-run followed by a real run with the same parameters, with
\* nobody else changing the store, report the same `changed`.
DryThenReal ==
    /\ Ended /\ outcome = "exit" /\ ~check_mode /\ ~disturbed
    /\ prev.outcome = "exit" /\ prev.check_mode

C2_DryRunFidelity_Original ==
    DryThenReal => result.changed = prev.changed

\* C2 (amended): ... provided the remote system faithfully persists and
\* echoes the update.
C2_DryRunFidelity ==
    (DryThenReal /\ echoed) => result.changed = prev.changed

C2_Witness ==
    /\ DryThenReal /\ echoed /\ ExistedAtStart /\ Requested = "present"
    /\ result.changed /\ prev.changed

\* C3: two real runs with the same parameters against a faithful remote
\* report changed=true and then changed=false.
RealThenReal ==
    /\ Ended /\ outcome = "exit" /\ ~check_mode /\ echoed /\ ~disturbed
    /\ prev.outcome = "exit" /\ ~prev.check_mode /\ prev.clean

C3_Idempotence_Original ==
    RealThenReal => (prev.changed /\ ~result.changed)

\* C3 (amended): the second of two such real runs reports changed=false, and
\* a real run against a faithful remote reports changed=true exactly when it
\* changed the realm store (so the first run reports false when the realm
\* already has the merged state or is already absent).
C3_Idempotence ==
    /\ RealThenReal => ~result.changed
    /\ (Ended /\ outcome = "exit" /\ ~check_mode /\ echoed /\ ~disturbed)
          => (result.changed <=> remote # startRemote)

C3_Witness ==
    /\ RealThenReal /\ prev.changed /\ ~result.changed
    /\ Requested = "present" /\ ExistedAtStart

\* C4: the action is chosen by the table (existing at start, requested
\* state); the only mutating call an invocation issues is that action's, at
\* most once, and a real run that ends with a result has issued it.
ExpectedCall ==
    IF ~ExistedAtStart
    THEN IF Requested = "absent" THEN "none" ELSE "create_realm"
    ELSE IF Requested = "present" THEN "update_realm" ELSE "delete_realm"

C4_ActionSelection ==
    outcome # "none" =>
        /\ Len(MutatingCalls) <= 1
        /\ \A i \in 1..Len(MutatingCalls) : MutatingCalls[i].op = ExpectedCall
        /\ (Ended /\ outcome = "exit" /\ ~check_mode) =>
              Len(MutatingCalls) = (IF ExpectedCall = "none" THEN 0 ELSE 1)

C4_Witness ==
    /\ Ended /\ outcome = "exit" /\ ~check_mode
    /\ ExpectedCall = "update_realm"
    /\ Len(MutatingCalls) = 1
    /\ sent # None /\ sent.v = ExistingAtStart

\* C5: the payload of create_realm / update_realm is the existing
\* representation overlaid by the changeset: changeset keys carry the
\* changeset's values, the other existing keys keep theirs, no other key
\* appears, and for an absent realm the payload is the changeset.
C5_MergePrecedence ==
    /\ desired_realm([a |-> 1, b |-> 2], [b |-> 3, c |-> 4])
          = [a |-> 1, b |-> 3, c |-> 4]
    /\ sent # None =>
          /\ DOMAIN sent.v = DOMAIN ExistingAtStart \cup DOMAIN loc.changeset
          /\ \A k \in DOMAIN loc.changeset : sent.v[k] = loc.changeset[k]
          /\ \A k \in DOMAIN ExistingAtStart \ DOMAIN loc.changeset :
                sent.v[k] = ExistingAtStart[k]
          /\ ~ExistedAtStart => sent.v = loc.changeset

C5_Witness ==
    /\ sent # None /\ ExistedAtStart
    /\ "displayName" \in DOMAIN ExistingAtStart
    /\ "displayName" \in DOMAIN loc.changeset
    /\ ExistingAtStart["displayName"] # loc.changeset["displayName"]
    /\ sent.v["displayName"] = "a"
    /\ "secret" \in DOMAIN sent.v
    /\ "attributes" \in DOMAIN sent.v /\ "attributes" \notin DOMAIN ExistingAtStart

\* C6: a real-run update issues update_realm exactly once, whatever the merged
\* state, then re-fetches; `changed` is true unless the representation
\* fetched before equals the re-fetched one, and then the invocation still
\* ends with a result.
RealUpdate ==
    Started /\ ~check_mode /\ ExistedAtStart /\ Requested = "present"

C6_UpdateThenCompare ==
    /\ (RealUpdate /\ pc = "updated") =>
          calls = <<Call("get_realm_by_id", RealmKey),
                    Call("update_realm", RealmKey)>>
    /\ (RealUpdate /\ Ended) =>
          /\ calls = <<Call("get_realm_by_id", RealmKey),
                       Call("update_realm", RealmKey),
                       Call("get_realm_by_id", RealmKey)>>
          /\ loc.after_realm # None =>
                /\ outcome = "exit"
                /\ result.changed = (ExistingAtStart # loc.after_realm.v)

C6_Witness ==
    /\ RealUpdate /\ Ended /\ outcome = "exit"
    /\ ~echoed /\ sent.v # ExistingAtStart
    /\ ~result.changed

\* C7: absent realm, state=present and no id in the merged state: the
\* invocation fails with the validation error, in check mode and in real
\* mode, and no create, update or delete call is issued.
CreateWithoutId ==
    Started /\ ~ExistedAtStart /\ Requested = "present" /\ params["id"] = None

C7_CreationPrecondition ==
    CreateWithoutId =>
        /\ pc = "idle"
        /\ outcome = "fail"
        /\ failmsg = "id needs to be specified when creating a new realm"
        /\ MutatingCalls = <<>>
        /\ remote = startRemote

C7_Witness == CreateWithoutId /\ ~check_mode /\ outcome = "fail"

\* C8: in every result, a top-level `secret` and
\* attributes['saml.signing.private.key'] of proposed, existing, end_state,
\* diff.before and diff.after carry the marker '********'.
Redacted(r) ==
    /\ "secret" \in DOMAIN r => r["secret"] = REDACTED
    /\ ("attributes" \in DOMAIN r /\ PrivKey \in DOMAIN r["attributes"])
          => r["attributes"][PrivKey] = REDACTED

SideRedacted(side) == "rep" \in DOMAIN side => Redacted(side.rep)

C8_Sanitization ==
    outcome = "exit" =>
        /\ Redacted(result.proposed)
        /\ Redacted(result.existing)
        /\ Redacted(result.end_state)
        /\ result.diff.set =>
              SideRedacted(result.diff.before) /\ SideRedacted(result.diff.after)

C8_Witness ==
    /\ outcome = "exit" /\ ~check_mode /\ result.diff.set
    /\ "secret" \in DOMAIN ExistingAtStart
    /\ "secret" \in DOMAIN result.end_state
    /\ "attributes" \in DOMAIN result.proposed
    /\ "attributes" \in DOMAIN result.end_state
    /\ "rep" \in DOMAIN result.diff.after
    /\ "secret" \in DOMAIN result.diff.after.rep

\* C9: present realm and state=absent: a real run issues delete_realm exactly
\* once and nothing else mutating, and reports changed=true, end_state={};
\* a dry run reports changed=true and issues no delete_realm.
DeleteCase == Started /\ ExistedAtStart /\ Requested = "absent"

C9_DeleteFlow ==
    DeleteCase =>
        /\ pc = "idle"
        /\ outcome = "exit"
        /\ result.changed
        /\ MutatingCalls = IF check_mode THEN <<>>
                           ELSE <<Call("delete_realm", RealmKey)>>
        /\ ~check_mode => result.end_state = EmptyRep

C9_Witness == DeleteCase /\ ~check_mode /\ RealmKey \notin DOMAIN remote

\* C10: absent realm and state=absent: changed=false, end_state={}, and no
\* create, update or delete call, in check mode and in real mode.
NoopCase == Started /\ ~ExistedAtStart /\ Requested = "absent"

C10_NoopOnAbsent ==
    NoopCase =>
        /\ pc = "idle"
        /\ outcome = "exit"
        /\ ~result.changed
        /\ result.end_state = EmptyRep
        /\ MutatingCalls = <<>>
        /\ remote = startRemote

C10_Witness == NoopCase /\ ~check_mode /\ outcome = "exit"

\* C11 (as stated): in the no-op outcome proposed, existing and end_state are
\* all empty mappings.
C11_NoopAllEmpty_Original ==
    NoopCase =>
        /\ result.proposed = EmptyRep
        /\ result.existing = EmptyRep
        /\ result.end_state = EmptyRep

\* C11 (amended): in the no-op outcome existing and end_state are empty
\* mappings and proposed is the sanitized changeset: it has the changeset's
\* keys and values, with the sensitive ones redacted.
C11_NoopReport ==
    NoopCase =>
        /\ result.existing = EmptyRep
        /\ result.end_state = EmptyRep
        /\ DOMAIN result.proposed = DOMAIN loc.changeset
        /\ Redacted(result.proposed)
        /\ \A k \in DOMAIN loc.changeset \ {"secret", "attributes"} :
              result.proposed[k] = loc.changeset[k]

C11_Witness ==
    /\ NoopCase /\ outcome = "exit"
    /\ "displayName" \in DOMAIN result.proposed
    /\ "attributes" \in DOMAIN result.proposed

\* C12: a fetch that finds nothing is treated as Absent and never ends the
\* invocation with an unhandled failure, for the initial fetch and for the
\* re-fetch after a real-run create or update.
RefetchNotFound ==
    /\ Ended /\ Len(calls) >= 2
    /\ calls[Len(calls)].op = "get_realm_by_id"
    /\ loc.after_realm = None

C12_NotFoundIsAbsent ==
    /\ (Started /\ ~ExistedAtStart) =>
          (loc.before_realm = EmptyRep /\ outcome # "exception")
    /\ RefetchNotFound => outcome = "exit"

\* C13: when token acquisition fails the invocation ends at once with a
\* fatal error carrying the failure's message; no fetch, no create, update or
\* delete call follows and no result is produced.
TokenAcquisitionFailed == outcome # "none" /\ loc.connection_header = None

C13_TokenFailureIsFatal ==
    TokenAcquisitionFailed =>
        /\ pc = "idle"
        /\ outcome = "fail"
        /\ failmsg = "KeycloakError"
        /\ calls = <<>>
        /\ sent = None
        /\ remote = startRemote
        /\ result = InitialResult

C13_Witness ==
    /\ TokenAcquisitionFailed /\ ~check_mode
    /\ ExistedAtStart /\ Requested = "absent"

\* C14 (as stated): the result has a diff with before / after only when diff
\* reporting was requested, and has no diff entry at all when it was not.
C14_DiffOnlyOnRequest_Original ==
    outcome = "exit" =>
        IF diffmode
        THEN "diff" \in DOMAIN result /\ result.diff.set
        ELSE "diff" \notin DOMAIN result

\* C14 (amended): the result always has a diff entry; it holds before / after
\* exactly when diff reporting was requested and is the empty mapping {}
\* when it was not.
C14_DiffOnlyOnRequest ==
    outcome = "exit" =>
        /\ "diff" \in DOMAIN result
        /\ result.diff.set <=> diffmode
        /\ ~diffmode => result.diff = NoDiff

C14_Witness ==
    /\ outcome = "exit" /\ ~diffmode /\ result.diff = NoDiff
    /\ ~ExistedAtStart /\ Requested = "absent"

\* C15: in a dry-run update `changed` is the inequality of the unsanitized
\* existing representation and the unsanitized merged state, also when they
\* differ only in a value that sanitization redacts.
DryUpdate ==
    /\ Started /\ check_mode /\ ExistedAtStart /\ Requested = "present"

MergedAtStart ==
    [k \in DOMAIN ExistingAtStart \cup DOMAIN loc.changeset |->
        IF k \in DOMAIN loc.changeset THEN loc.changeset[k]
        ELSE ExistingAtStart[k]]

C15_DryUpdateChanged ==
    DryUpdate =>
        /\ outcome = "exit"
        /\ result.changed <=> (ExistingAtStart # MergedAtStart)

C15_Witness ==
    /\ DryUpdate /\ result.changed
    /\ result.existing = sanitize_cr(MergedAtStart)
    /\ ExistingAtStart # MergedAtStart

\* C16: the calls of an invocation are ordered and bounded: one initial
\* fetch before any mutating call, at most one mutating call, exactly one
\* re-fetch after a real-run create or update before the result, and every
\* invocation ends with exactly one outcome.
CallOps == [i \in 1..Len(calls) |-> calls[i].op]

C16_Shape ==
    /\ Len(MutatingCalls) <= 1
    /\ pc # "idle" =>
          /\ outcome = "running"
          /\ CallOps \in {<<"get_realm_by_id", "create_realm">>,
                          <<"get_realm_by_id", "update_realm">>}
    /\ Ended =>
          /\ outcome \in {"exit", "fail", "exception"}
          /\ CallOps \in {<<>>,
                          <<"get_realm_by_id">>,
                          <<"get_realm_by_id", "create_realm">>,
                          <<"get_realm_by_id", "create_realm", "get_realm_by_id">>,
                          <<"get_realm_by_id", "update_realm", "get_realm_by_id">>,
                          <<"get_realm_by_id", "delete_realm">>}
          /\ (outcome = "exit" /\ ~check_mode
                /\ ExpectedCall \in {"create_realm", "update_realm"}) =>
                CallOps = <<"get_realm_by_id", ExpectedCall, "get_realm_by_id">>
          /\ (Len(CallOps) = 2 /\ CallOps[2] = "create_realm") => outcome = "fail"

C16_OrderedAndTerminating ==
    /\ []C16_Shape
    /\ (pc # "idle") ~> (pc = "idle")

C16_Witness ==
    /\ Ended /\ outcome = "exit" /\ ~check_mode
    /\ CallOps = <<"get_realm_by_id", "update_realm", "get_realm_by_id">>

\* ------------------------------------------- sanitize_cr on the object heap
\* Python dicts are objects: a heap maps an address to a dict, and the value of
\* 'attributes' is a reference to the nested dict.
Ref(a) == [ref |-> a]

\* dict.copy(): a new object with the same items (nested objects are shared)
HeapCopy(h, a) == h @@ ((Len(h) + 1) :> h[a])

sanitize_heap_no_copy(h, realmrep) ==
    LET r == Len(h) + 1
        h1 == HeapCopy(h, realmrep)
        h2 == IF "secret" \in DOMAIN h1[r]
              THEN [h1 EXCEPT ![r]["secret"] = REDACTED] ELSE h1
        h3 == IF "attributes" \in DOMAIN h2[r]
                 /\ PrivKey \in DOMAIN h2[h2[r]["attributes"].ref]
              THEN [h2 EXCEPT ![h2[r]["attributes"].ref][PrivKey] = REDACTED]
              ELSE h2
    IN  [heap |-> h3, ret |-> r]

\* sanitize_cr, statement by statement, on the heap
sanitize_heap(h, realmrep) ==
    LET r == Len(h) + 1
        h1 == HeapCopy(h, realmrep)
        h2 == IF "secret" \in DOMAIN h1[r]
              THEN [h1 EXCEPT ![r]["secret"] = REDACTED] ELSE h1
        h3 == IF "attributes" \in DOMAIN h2[r]
                 /\ PrivKey \in DOMAIN h2[h2[r]["attributes"].ref]
              THEN LET n == r + 1
                       h3a == HeapCopy(h2, h2[r]["attributes"].ref)
                       h3b == [h3a EXCEPT ![r]["attributes"] = Ref(n)]
                   IN  [h3b EXCEPT ![n][PrivKey] = REDACTED]
              ELSE h2
    IN  [heap |-> h3, ret |-> r]

\* the representation an address stands for
Deref(h, a) ==
    [k \in DOMAIN h[a] |->
        IF k = "attributes" THEN h[h[a][k].ref] ELSE h[a][k]]

OptOf(S) == {None} \cup {Some(x) : x \in S}
Item(k, opt) == IF opt = None THEN <<>> ELSE (k :> opt.v)

\* heaps holding one realm representation at address 1 (and its attributes
\* dict at address 2)
HeapInit ==
    \E i \in Keys, sec \in OptOf({"s1", "s2"}), d \in OptOf({"a"}),
       hasAttrs \in BOOLEAN,
       pk \in OptOf({"k0", "k1"}), alg \in OptOf({"RS256"}) :
        /\ hasAttrs \/ (pk = None /\ alg = None)
        /\ hin = IF hasAttrs
                 THEN << ("id" :> i) @@ Item("secret", sec)
                            @@ Item("displayName", d)
                            @@ ("attributes" :> Ref(2)),
                         Item(PrivKey, pk)
                            @@ Item("request.object.signature.alg", alg) >>
                 ELSE << ("id" :> i) @@ Item("secret", sec)
                            @@ Item("displayName", d) >>
        /\ hheap = hin
        /\ hret = 0
        /\ hpc = "call"

MainOff ==
    /\ remote = <<>>
    /\ params = [token |-> Some("t"), auth_realm |-> None,
                 state |-> Some("present"), id |-> Some("r1"),
                 realm |-> Some("r1"), display_name |-> None,
                 attributes |-> None]
    /\ diffmode = FALSE
    /\ check_mode = FALSE
    /\ pc = "off"
    /\ outcome = "none"
    /\ result = InitialResult
    /\ failmsg = ""
    /\ loc = NoLocals
    /\ calls = <<>>
    /\ sent = None
    /\ startRemote = <<>>
    /\ echoed = TRUE
    /\ disturbed = FALSE
    /\ prev = NoPrev
    /\ runs = 0
    /\ externals = 0

\* sanitize_cr(realmrep) is called on the representation at address 1
SanitizeCall ==
    /\ hpc = "call"
    /\ LET s == sanitize_heap(hheap, 1)
       IN  /\ hheap' = s.heap
           /\ hret' = s.ret
    /\ hpc' = "returned"
    /\ UNCHANGED hin
    /\ UNCHANGED mainvars

SanitizeInit == MainOff /\ HeapInit

SanitizeSpec == SanitizeInit /\ [][SanitizeCall]_vars

\* C17: sanitize_cr does not modify its argument: the dict it was given and
\* that dict's nested attributes dict hold their original values afterwards,
\* while the returned representation is the redacted one.
C17_SanitizeDoesNotMutate ==
    hpc = "returned" =>
        /\ \A a \in DOMAIN hin : hheap[a] = hin[a]
        /\ Deref(hheap, 1) = Deref(hin, 1)
        /\ hret \notin DOMAIN hin
        /\ Redacted(Deref(hheap, hret))
        /\ Deref(hheap, hret) = sanitize_cr(Deref(hin, 1))

C17_Witness ==
    /\ hpc = "returned"
    /\ "secret" \in DOMAIN hin[1]
    /\ "attributes" \in DOMAIN hin[1]
    /\ PrivKey \in DOMAIN hin[2]
    /\ hheap[2][PrivKey] = "k0"
    /\ Deref(hheap, hret)["attributes"][PrivKey] = REDACTED

\* C18: the changeset has exactly the wire names of the non-null parameters
\* outside the exclusion set (connection / auth parameters and state), each
\* with the parameter's value; a null parameter adds and overrides nothing,
\* so the existing attribute survives in the merged state.
ResourceParams == {"id", "realm", "display_name", "attributes"}

WireName == [id |-> "id", realm |-> "realm",
             display_name |-> "displayName", attributes |-> "attributes"]

C18_ChangesetKeys ==
    Started =>
        /\ DOMAIN loc.changeset =
              {WireName[x] : x \in {y \in ResourceParams : params[y] # None}}
        /\ \A x \in ResourceParams :
              params[x] # None => loc.changeset[WireName[x]] = params[x].v
        /\ \A x \in ResourceParams :
              (params[x] = None /\ WireName[x] \in DOMAIN ExistingAtStart) =>
                  /\ WireName[x] \in DOMAIN loc.desired_realm
                  /\ loc.desired_realm[WireName[x]] = ExistingAtStart[WireName[x]]

C18_Witness ==
    /\ Started /\ sent # None
    /\ params["display_name"] = None
    /\ "displayName" \in DOMAIN ExistingAtStart
    /\ sent.v["displayName"] = ExistingAtStart["displayName"]
    /\ params["attributes"] # None
    /\ params["auth_realm"] = None /\ params["token"] # None

\* C19: a dry-run create, update or delete ends with end_state={} and an
\* empty msg; the real-run create or update reports the sanitized re-fetched
\* representation in end_state and a non-empty msg.
C19_DryRunReportsNoEndState ==
    /\ (Started /\ check_mode /\ outcome = "exit" /\ ExpectedCall # "none") =>
          /\ result.end_state = EmptyRep
          /\ result.msg = ""
    /\ (Ended /\ ~check_mode /\ outcome = "exit"
          /\ ExpectedCall \in {"create_realm", "update_realm"}) =>
          /\ result.msg # ""
          /\ loc.after_realm # None
          /\ result.end_state # EmptyRep
          /\ DOMAIN result.end_state = DOMAIN loc.after_realm.v
          /\ Redacted(result.end_state)
          /\ \A k \in DOMAIN result.end_state \ {"secret", "attributes"} :
                result.end_state[k] = loc.after_realm.v[k]

C19_Witness ==
    /\ Started /\ check_mode /\ outcome = "exit"
    /\ ExpectedCall = "update_realm" /\ result.changed
    /\ result.end_state = EmptyRep /\ result.msg = ""

====
